---- MODULE Spec2Model ----
(***************************************************************************)
(* Model of the Winston-based logger factory (logger.js):                  *)
(*   - module load: LOGGER_CONFIG parsing, defaults, transport building;   *)
(*   - createLogger(fileName): level resolution, formatter, sinks;         *)
(*   - log calls: per-transport level filter, pretty / json rendering;     *)
(*   - requestContext (AsyncLocalStorage): run, continuations, getStore.   *)
(* and of the earlier factory (index.js): LOG_LEVEL, LOG_TRANSPORTS, the   *)
(* shared transport list and its createLogger.                             *)
(*                                                                         *)
(* JavaScript values are tagged records [t |-> tag, ...].  Strings that    *)
(* the formatter works on are sequences of units: a unit is one keyword    *)
(* as written ("password", "Token"), one character (":", "=", " ", "*")    *)
(* or one word that holds no keyword.                                      *)
(***************************************************************************)
EXTENDS Integers, Sequences, FiniteSets, TLC

VARIABLES
    env,                  \* process.env.LOGGER_CONFIG
    pc,                   \* "load" before the module body ran, then "ready" or "raised"
    loggerConfig,         \* let loggerConfig
    defaultLevel,         \* const defaultLevel
    globalFormat,         \* const globalFormat
    levelOverrides,       \* const levelOverrides
    configuredTransports, \* const configuredTransports
    stderr,               \* what console.error / console.warn printed
    nSinks,               \* sink objects constructed so far in the process
    loggers,              \* the handles createLogger returned, in call order
    running,              \* the synchronous task on the stack, or NoTask
    resStore,             \* AsyncLocalStorage: store of each execution resource
    saved,                \* stores run() will restore, innermost last
    scope,                \* lexical record of the run() callbacks entered
    pending,              \* continuations waiting in the event loop
    lastLog,              \* the last log call and what it produced
    indexEnv,             \* index.js: process.env.LOG_LEVEL and process.env.LOG_TRANSPORTS
    indexPc,              \* index.js: "absent", "load", then "ready" or "raised"
    logLevel,             \* index.js: const logLevel
    transportNames,       \* index.js: const transportNames
    transports,           \* index.js: const transports
    indexLoggers          \* index.js: the handles its createLogger returned

vars == <<env, pc, loggerConfig, defaultLevel, globalFormat, levelOverrides,
          configuredTransports, stderr, nSinks, loggers, running, resStore,
          saved, scope, pending, lastLog,
          indexEnv, indexPc, logLevel, transportNames, transports, indexLoggers>>

configVars == <<env, loggerConfig, defaultLevel, globalFormat, levelOverrides,
                configuredTransports, stderr>>

alsVars == <<running, resStore, saved, scope, pending>>

indexVars == <<indexEnv, indexPc, logLevel, transportNames, transports, indexLoggers>>

loggerVars == <<env, pc, loggerConfig, defaultLevel, globalFormat, levelOverrides,
                configuredTransports, stderr, nSinks, loggers, running, resStore,
                saved, scope, pending, lastLog>>

-----------------------------------------------------------------------------
(* Bounds of the model *)

MaxTransports == 2   \* descriptors in LOGGER_CONFIG.transports
MaxLoggers == 2      \* createLogger calls of a program that makes several
MaxHandles == 1      \* createLogger calls of the service (the test application makes one)
MaxDepth == 2        \* nested requestContext.run calls
MaxRes == 3          \* execution resources (tasks and continuations)
MaxMsgLen == 5       \* units in a generated message
MaxNames == 2        \* elements of a LOG_TRANSPORTS array

-----------------------------------------------------------------------------
(* JavaScript values *)

Undef == [t |-> "undef"]
Null == [t |-> "null"]
Func == [t |-> "func"]
Num(n) == [t |-> "num", num |-> n]
Str(s) == [t |-> "str", str |-> s]
Text(u) == [t |-> "text", units |-> u]     \* a string given by its units
Obj(f) == [t |-> "obj", props |-> f]
Arr(s) == [t |-> "arr", items |-> s]
Printed(u) == [t |-> "obj", printed |-> u]   \* an object given by its printed units
EmptyObj == Obj(<<>>)

\* Properties every JSON-parsed object inherits from Object.prototype.
ProtoKeys == {"toString", "constructor"}

\* ToBoolean, as || and ?: apply it.
Truthy(v) ==
    CASE v.t \in {"undef", "null"} -> FALSE
      [] v.t = "num" -> v.num # 0
      [] v.t = "str" -> v.str # ""
      [] v.t = "text" -> v.units # <<>>
      [] OTHER -> TRUE

\* a || b
Or(a, b) == IF Truthy(a) THEN a ELSE b

\* v.k raises a TypeError exactly when v is null or undefined.
CanRead(v) == v.t \notin {"undef", "null"}

\* v[k] for a readable v: own property, else the prototype chain.
GetProp(v, k) ==
    IF v.t = "obj" /\ k \in DOMAIN v.props THEN v.props[k]
    ELSE IF k \in ProtoKeys THEN Func
    ELSE Undef

\* v?.k
OptGet(v, k) == IF CanRead(v) THEN GetProp(v, k) ELSE Undef

\* for (const x of v) raises a TypeError unless v is iterable.
Iterable(v) == v.t = "arr"

-----------------------------------------------------------------------------
(* winston's npm levels: the smaller the rank, the more severe *)

NpmLevels == {"error", "warn", "info", "http", "verbose", "debug", "silly"}

LevelRank(l) ==
    CASE l = "error" -> 0 [] l = "warn" -> 1 [] l = "info" -> 2 [] l = "http" -> 3
      [] l = "verbose" -> 4 [] l = "debug" -> 5 [] l = "silly" -> 6

\* this.levels[level] is a number only for a string that names a level.
IsLevel(v) == v.t = "str" /\ v.str \in NpmLevels

-----------------------------------------------------------------------------
(* Module load, part 1: parse LOGGER_CONFIG *)

UnsetEnv == [kind |-> "unset", value |-> Undef]
EmptyEnv == [kind |-> "empty", value |-> Undef]
MalformedEnv == [kind |-> "malformed", value |-> Undef]
JsonEnv(v) == [kind |-> "json", value |-> v]

\* JSON.parse(process.env.LOGGER_CONFIG || '{}') inside try / catch.
ParseConfig(raw) ==
    CASE raw.kind \in {"unset", "empty"} -> [config |-> EmptyObj, err |-> <<>>]
      [] raw.kind = "malformed" -> [config |-> EmptyObj, err |-> <<"Invalid LOGGER_CONFIG">>]
      [] OTHER -> [config |-> raw.value, err |-> <<>>]

\* loggerConfig.levels?.default || "info"
DefaultLevelOf(config) == Or(OptGet(GetProp(config, "levels"), "default"), Str("info"))

\* loggerConfig.format === "json" ? "json" : "pretty"
GlobalFormatOf(config) == IF GetProp(config, "format") = Str("json") THEN "json" ELSE "pretty"

\* loggerConfig.levels || {}
LevelOverridesOf(config) == Or(GetProp(config, "levels"), EmptyObj)

-----------------------------------------------------------------------------
(* Module load, part 2: build the configured transports *)

KnownTypes == {"daily", "static", "file", "http"}

SinkKind(type) ==
    CASE type = "daily" -> "DailyRotateFile"
      [] type = "http" -> "Http"
      [] OTHER -> "File"

OpensFile(kind) == kind \in {"DailyRotateFile", "File"}

Sink(id, kind, level) == [id |-> id, kind |-> kind, level |-> level]

\* One iteration of the loop body: destructure, switch, push or warn.
\* acc = [raised, sinks, warns].
BuildOne(transport, dflt, acc) ==
    IF ~CanRead(transport) THEN [acc EXCEPT !.raised = TRUE]
    ELSE LET type == GetProp(transport, "type")
             given == GetProp(transport, "options")
             options == IF given = Undef THEN EmptyObj ELSE given
         IN  IF type.t = "str" /\ type.str \in KnownTypes
             THEN IF ~CanRead(options) THEN [acc EXCEPT !.raised = TRUE]
                  ELSE [acc EXCEPT !.sinks =
                           Append(@, Sink(Len(@) + 1, SinkKind(type.str),
                                          Or(GetProp(options, "level"), dflt)))]
             ELSE [acc EXCEPT !.warns = Append(@, "Unknown transport type")]

RECURSIVE BuildFrom(_, _, _, _)
BuildFrom(list, i, dflt, acc) ==
    IF acc.raised \/ i > Len(list) THEN acc
    ELSE BuildFrom(list, i + 1, dflt, BuildOne(list[i], dflt, acc))

\* for (const transport of loggerConfig.transports || []) { ... }
BuildTransports(config, dflt) ==
    LET list == Or(GetProp(config, "transports"), Arr(<<>>))
        start == [raised |-> FALSE, sinks |-> <<>>, warns |-> <<>>]
    IN  IF ~Iterable(list) THEN [start EXCEPT !.raised = TRUE]
        ELSE BuildFrom(list.items, 1, dflt, start)

-----------------------------------------------------------------------------
(* Module load: the whole module body, lines 28-93 *)

Loaded(raw) ==
    LET parsed == ParseConfig(raw)
        config == parsed.config
    IN  IF ~CanRead(config)
        THEN [raised |-> TRUE, config |-> config, dflt |-> Undef, format |-> "",
              overrides |-> Undef, sinks |-> <<>>, out |-> parsed.err]
        ELSE LET dflt == DefaultLevelOf(config)
                 built == BuildTransports(config, dflt)
             IN  [raised |-> built.raised, config |-> config, dflt |-> dflt,
                  format |-> GlobalFormatOf(config),
                  overrides |-> LevelOverridesOf(config),
                  sinks |-> built.sinks, out |-> parsed.err \o built.warns]

ModuleLoad ==
    /\ pc = "load"
    /\ LET m == Loaded(env)
       IN  /\ pc' = IF m.raised THEN "raised" ELSE "ready"
           /\ loggerConfig' = m.config
           /\ defaultLevel' = m.dflt
           /\ globalFormat' = m.format
           /\ levelOverrides' = m.overrides
           /\ configuredTransports' = m.sinks
           /\ stderr' = m.out
           /\ nSinks' = Len(m.sinks)
    /\ UNCHANGED <<env, loggers, lastLog>>
    /\ UNCHANGED alsVars
    /\ UNCHANGED indexVars

-----------------------------------------------------------------------------
(* createLogger(fileName = "app"), lines 97-133 *)

\* levelOverrides[fileName] || defaultLevel
EffectiveLevel(overrides, fileName, dflt) == Or(GetProp(overrides, fileName), dflt)

\* The object winston.createLogger returns for this call; n sinks exist already.
NewLogger(fileName, n) ==
    LET effectiveLevel == EffectiveLevel(levelOverrides, fileName, defaultLevel)
    IN  [fileName |-> fileName,
         level |-> effectiveLevel,
         format |-> globalFormat,
         transports |-> <<Sink(n + 1, "Console", effectiveLevel)>> \o configuredTransports,
         exceptionHandlers |-> <<Sink(n + 2, "File", Undef)>>]

CreateLogger(arg) ==
    /\ pc = "ready"
    /\ LET fileName == IF arg = Undef THEN "app" ELSE arg.str
       IN  loggers' = Append(loggers, NewLogger(fileName, nSinks))
    /\ nSinks' = nSinks + 2
    /\ UNCHANGED <<pc, lastLog>>
    /\ UNCHANGED configVars
    /\ UNCHANGED alsVars
    /\ UNCHANGED indexVars

\* What the process holds after the calls made so far.
AllSinks ==
    { configuredTransports[i] : i \in DOMAIN configuredTransports }
    \cup UNION { { l.transports[1], l.exceptionHandlers[1] } :
                 l \in { loggers[i] : i \in DOMAIN loggers } }

FileHandles == { s \in AllSinks : OpensFile(s.kind) }

\* process.on("uncaughtException", ...) listeners: one per logger with exceptionHandlers.
ExceptionListeners == Len(loggers)

\* How many loggers a sink is piped to (logger.add(transport)).
Registrations(s) ==
    Cardinality({ i \in DOMAIN loggers :
                    \E j \in DOMAIN loggers[i].transports : loggers[i].transports[j] = s })

-----------------------------------------------------------------------------
(* The pretty formatter's masking, line 107-109:                           *)
(*   message.replace(/(password|token)\s*[:=]\s*\S+/gi, "$1: ***")         *)

KeywordUnits == {"password", "Password", "PASSWORD", "token", "Token", "TOKEN"}
SpaceUnits == {" ", "\n"}
DelimUnits == {":", "="}

IsKeyword(u) == u \in KeywordUnits     \* (password|token) under the i flag
IsSpace(u) == u \in SpaceUnits         \* \s
IsDelim(u) == u \in DelimUnits         \* [:=]

\* \s* from position i: the first position at or after i that holds no space.
RECURSIVE SkipSpaces(_, _)
SkipSpaces(m, i) ==
    IF i <= Len(m) /\ IsSpace(m[i]) THEN SkipSpaces(m, i + 1) ELSE i

\* \S+ from position i: the last position of the run, i - 1 when the run is empty.
RECURSIVE RunEnd(_, _)
RunEnd(m, i) ==
    IF i <= Len(m) /\ ~IsSpace(m[i]) THEN RunEnd(m, i + 1) ELSE i - 1

\* MatchEnd as /(password|token)[:=]\S+/ would have it: no \s* around the delimiter.
MatchEndNoSpaces(m, i) ==
    IF ~IsKeyword(m[i]) THEN 0
    ELSE IF i + 1 > Len(m) \/ ~IsDelim(m[i + 1]) THEN 0
    ELSE IF RunEnd(m, i + 2) < i + 2 THEN 0 ELSE RunEnd(m, i + 2)

\* Where the match that starts at i ends; 0 when the regex does not match at i.
MatchEnd(m, i) ==
    IF ~IsKeyword(m[i]) THEN 0
    ELSE LET d == SkipSpaces(m, i + 1)
         IN  IF d > Len(m) \/ ~IsDelim(m[d]) THEN 0
             ELSE LET v == SkipSpaces(m, d + 1)
                      e == RunEnd(m, v)
                  IN  IF e < v THEN 0 ELSE e

\* The g flag: leftmost matches, none overlapping, each replaced by "$1: ***".
RECURSIVE MaskFrom(_, _)
MaskFrom(m, i) ==
    IF i > Len(m) THEN <<>>
    ELSE LET e == MatchEnd(m, i)
         IN  IF e = 0 THEN <<m[i]>> \o MaskFrom(m, i + 1)
             ELSE <<m[i], ":", " ", "*", "*", "*">> \o MaskFrom(m, e + 1)

\* typeof message === "string" ? message.replace(...) : message
MaskedMessage(message) ==
    IF message.t = "text" THEN Text(MaskFrom(message.units, 1)) ELSE message

-----------------------------------------------------------------------------
(* The pretty formatter, lines 102-116 *)

Upper(level) ==
    CASE level = "error" -> "ERROR" [] level = "warn" -> "WARN" [] level = "info" -> "INFO"
      [] level = "http" -> "HTTP" [] level = "verbose" -> "VERBOSE"
      [] level = "debug" -> "DEBUG" [] level = "silly" -> "SILLY"

\* asyncLocalStorage.getStore?.()?.requestId
RequestIdOf(store) == OptGet(store, "requestId")

\* RequestIdPart without the test of requestId: `[${requestId}] ` always.
RequestIdPartAlways(requestId) ==
    <<"[", IF requestId.t = "str" THEN requestId.str ELSE "undefined", "]", " ">>

\* requestId ? `[${requestId}] ` : ""
RequestIdPart(requestId) ==
    IF Truthy(requestId) THEN <<"[", requestId.str, "]", " ">> ELSE <<>>

\* util.inspect(arg, { depth: null }): a string is quoted, an object is printed.
Inspect(arg) ==
    IF arg.t = "text" THEN <<"'">> \o arg.units \o <<"'">> ELSE <<"{">> \o arg.printed \o <<"}">>

RECURSIVE JoinInspected(_, _)
JoinInspected(extra, i) ==
    IF i > Len(extra) THEN <<>>
    ELSE <<" ">> \o Inspect(extra[i]) \o JoinInspected(extra, i + 1)

\* util.format(maskedMessage, ...extra.map(inspect)) for a message without
\* % specifiers: the first argument, then each further one after a space.
Format(first, extra) ==
    (IF first.t = "text" THEN first.units ELSE Inspect(first)) \o JoinInspected(extra, 1)

PrettyLine(fileName, level, message, extra, store) ==
    <<"<timestamp>", " ", "[", Upper(level), "]", " ">>
    \o RequestIdPart(RequestIdOf(store))
    \o <<"[", fileName, "]", " ", "-", " ">>
    \o Format(MaskedMessage(message), extra)

\* winston.format.json(): the info object as it is, level and message.
JsonRecord(level, message) ==
    [level |-> Text(<<level>>), message |-> message]

\* format: globalFormat === "json" ? winston.format.json() : prettyFormatter
Render(logger, level, message, extra, store) ==
    IF logger.format = "json"
    THEN [kind |-> "json", fields |-> JsonRecord(level, message), line |-> <<>>]
    ELSE [kind |-> "pretty", fields |-> <<>>,
          line |-> PrettyLine(logger.fileName, level, message, extra, store)]

-----------------------------------------------------------------------------
(* Delivery: a transport writes a record when its own level, or else the   *)
(* level of the logger it is piped from, admits the record's level.        *)

\* The logger a transport was piped from last.
ParentOf(s) ==
    LET users == { i \in DOMAIN loggers :
                     \E j \in DOMAIN loggers[i].transports : loggers[i].transports[j] = s }
    IN  loggers[CHOOSE i \in users : \A k \in users : k <= i]

Admits(threshold, level) ==
    \/ ~Truthy(threshold)
    \/ IsLevel(threshold) /\ LevelRank(threshold.str) >= LevelRank(level)

Delivered(logger, level) ==
    { s \in { logger.transports[j] : j \in DOMAIN logger.transports } :
        Admits(Or(s.level, ParentOf(s).level), level) }

-----------------------------------------------------------------------------
(* requestContext = new AsyncLocalStorage(): the store lives on the        *)
(* current execution resource; run() sets it for the callback and puts the *)
(* old one back in a finally; a continuation created inside gets a         *)
(* resource of its own that starts with a copy of the creator's store.     *)

NoTask == [res |-> 0, exc |-> FALSE]

\* requestContext.getStore()
GetStore == IF running.res = 0 THEN Undef ELSE resStore[running.res]

\* The context of the innermost run() callback the running code is written in.
OwnContext == IF running.res = 0 THEN Undef ELSE scope[Len(scope)]

\* The event loop starts a task that no context was active for (a request arrives).
TaskStart ==
    /\ pc = "ready"
    /\ running = NoTask
    /\ Len(resStore) < MaxRes
    /\ resStore' = Append(resStore, Undef)
    /\ running' = [res |-> Len(resStore) + 1, exc |-> FALSE]
    /\ saved' = <<>>
    /\ scope' = <<Undef>>
    /\ UNCHANGED <<pc, nSinks, loggers, pending, lastLog>>
    /\ UNCHANGED configVars
    /\ UNCHANGED indexVars

\* requestContext.run(contextValue, callback): entering the callback.
RunEnter(contextValue) ==
    /\ running.res # 0
    /\ ~running.exc
    /\ Len(saved) < MaxDepth
    /\ saved' = Append(saved, resStore[running.res])
    /\ resStore' = [resStore EXCEPT ![running.res] = contextValue]
    /\ scope' = Append(scope, contextValue)
    /\ UNCHANGED <<pc, nSinks, loggers, running, pending, lastLog>>
    /\ UNCHANGED configVars
    /\ UNCHANGED indexVars

\* RunExit of a run() that restores the old store after a return only (no finally).
RunExitNoFinally(how) ==
    /\ running.res # 0
    /\ Len(saved) > 0
    /\ how = "return" => ~running.exc
    /\ resStore' = IF how = "return"
                   THEN [resStore EXCEPT ![running.res] = saved[Len(saved)]]
                   ELSE resStore
    /\ saved' = SubSeq(saved, 1, Len(saved) - 1)
    /\ scope' = SubSeq(scope, 1, Len(scope) - 1)
    /\ running' = [running EXCEPT !.exc = (how = "throw")]
    /\ UNCHANGED <<pc, nSinks, loggers, pending, lastLog>>
    /\ UNCHANGED configVars
    /\ UNCHANGED indexVars

\* The callback returns or throws: run()'s finally restores the old store.
\* A thrown error keeps propagating until Catch.
RunExit(how) ==
    /\ running.res # 0
    /\ Len(saved) > 0
    /\ how = "return" => ~running.exc
    /\ resStore' = [resStore EXCEPT ![running.res] = saved[Len(saved)]]
    /\ saved' = SubSeq(saved, 1, Len(saved) - 1)
    /\ scope' = SubSeq(scope, 1, Len(scope) - 1)
    /\ running' = [running EXCEPT !.exc = (how = "throw")]
    /\ UNCHANGED <<pc, nSinks, loggers, pending, lastLog>>
    /\ UNCHANGED configVars
    /\ UNCHANGED indexVars

\* The caller of run() catches the error (the /error route's try / catch).
Catch ==
    /\ running.res # 0
    /\ running.exc
    /\ running' = [running EXCEPT !.exc = FALSE]
    /\ UNCHANGED <<pc, nSinks, loggers, resStore, saved, scope, pending, lastLog>>
    /\ UNCHANGED configVars
    /\ UNCHANGED indexVars

\* The running code creates an asynchronous continuation (a timer, a promise).
Spawn ==
    /\ running.res # 0
    /\ ~running.exc
    /\ Len(resStore) < MaxRes
    /\ resStore' = Append(resStore, resStore[running.res])
    /\ pending' = pending \cup {[res |-> Len(resStore) + 1, ctx |-> OwnContext]}
    /\ UNCHANGED <<pc, nSinks, loggers, running, saved, scope, lastLog>>
    /\ UNCHANGED configVars
    /\ UNCHANGED indexVars

\* The synchronous task runs to its end; an error nobody caught goes to the
\* exception handlers and, with exitOnError false, the process goes on.
TaskEnd ==
    /\ running.res # 0
    /\ Len(saved) = 0
    /\ running' = NoTask
    /\ scope' = <<>>
    /\ UNCHANGED <<pc, nSinks, loggers, resStore, saved, pending, lastLog>>
    /\ UNCHANGED configVars
    /\ UNCHANGED indexVars

\* The event loop runs a waiting continuation on its own resource.
ContRun(c) ==
    /\ running = NoTask
    /\ c \in pending
    /\ running' = [res |-> c.res, exc |-> FALSE]
    /\ pending' = pending \ {c}
    /\ saved' = <<>>
    /\ scope' = <<c.ctx>>
    /\ UNCHANGED <<pc, nSinks, loggers, resStore, lastLog>>
    /\ UNCHANGED configVars
    /\ UNCHANGED indexVars

-----------------------------------------------------------------------------
(* logger.<level>(message, ...extra) *)

NoLog == [h |-> 0, level |-> "", message |-> Undef, extra |-> <<>>, own |-> Undef,
          out |-> [kind |-> "", fields |-> <<>>, line |-> <<>>], delivered |-> {}]

\* One log call; with no task running it is a task of its own without context.
LogCall(levels, messages, extras) ==
    /\ pc = "ready"
    /\ ~running.exc
    /\ \E h \in DOMAIN loggers, level \in levels, message \in messages, extra \in extras :
         lastLog' = [h |-> h, level |-> level, message |-> message, extra |-> extra,
                     own |-> OwnContext,
                     out |-> Render(loggers[h], level, message, extra, GetStore),
                     delivered |-> Delivered(loggers[h], level)]
    /\ UNCHANGED <<pc, nSinks, loggers>>
    /\ UNCHANGED configVars
    /\ UNCHANGED alsVars
    /\ UNCHANGED indexVars

-----------------------------------------------------------------------------
(* Inputs *)

\* An object literal from the fields that are present (Undef marks an absent one).
Field(k, v) == IF v = Undef THEN <<>> ELSE (k :> v)

ConfigLevels == {"warn", "debug"}
LevelChoice == {Undef} \cup { Str(l) : l \in ConfigLevels }

\* "levels": absent, null, or an object with any of the keys default and mod.
LevelsChoices ==
    {Undef, Null} \cup { Obj(Field("default", d) @@ Field("mod", m)) : d, m \in LevelChoice }

FormatChoices == {Undef, Str("json"), Str("yaml")}

\* One element of "transports".
Descriptor(type, options) == Obj(Field("type", type) @@ Field("options", options))

Descriptors ==
    { Descriptor(Str(t), Undef) : t \in KnownTypes \cup {"syslog"} }
    \cup { Descriptor(Str("file"), Obj("level" :> Str("error"))),
           Descriptor(Str("file"), Null),
           Null }

BoundedSeqs(S, n) == UNION { [1..k -> S] : k \in 0..n }

\* "transports": absent, a number, or an array of descriptors.
TransportsChoices ==
    {Undef, Num(5)} \cup { Arr(q) : q \in BoundedSeqs(Descriptors, MaxTransports) }

ConfigObjects ==
    { Obj(Field("levels", l) @@ Field("format", f) @@ Field("transports", t)) :
        l \in LevelsChoices, f \in FormatChoices, t \in TransportsChoices }

\* Every shape of LOGGER_CONFIG: unset, empty, not JSON, JSON that is no object, an object.
AllEnvs ==
    {UnsetEnv, EmptyEnv, MalformedEnv, JsonEnv(Null), JsonEnv(Num(5))}
    \cup { JsonEnv(c) : c \in ConfigObjects }

\* The configurations of the running service: json, and pretty with per-module levels.
ServiceEnvs ==
    {JsonEnv(Obj("format" :> Str("json"))),
     JsonEnv(Obj(("levels" :> Obj(("default" :> Str("warn")) @@ ("test-app" :> Str("debug"))))
                 @@ ("transports" :> Arr(<<Descriptor(Str("static"), Undef)>>))))}

Labels == {Str("mod"), Str("other"), Str("toString"), Undef}
ServiceLabels == {Str("test-app")}

Severities == {"error", "warn", "info", "debug"}
ServiceSeverities == {"info"}

\* run() is given an object with a requestId, which may be the empty string.
Contexts == { Obj("requestId" :> Str(r)) : r \in {"r1", "r2", ""} }

PlainMessages == {Text(<<"password", ":", " ", "secret123">>)}
NoExtras == {<<>>}

MaskAlphabet == {"password", "Token", ":", "=", " ", "x"}

ExampleMessages ==
    {<<"password", ":", " ", "secret123">>,
     <<"token", "=", "abcXYZ">>,
     <<"my", " ", "password", " ", "field">>,
     <<"password", ":", " ", "*", "*", "*">>,
     <<"password", "=", "x", " ", "TOKEN", " ", ":", "x", " ", "x">>}

MaskMessages ==
    { Text(u) : u \in BoundedSeqs(MaskAlphabet, MaxMsgLen) \cup ExampleMessages }
    \cup { Printed(<<"password", ":", " ", "secret123">>) }

MaskExtras == {<<>>, <<Text(<<"token", "=", "abcXYZ">>)>>, <<Printed(<<"password", ":", "x">>)>>}

-----------------------------------------------------------------------------
(* index.js, the earlier factory: module load, lines 34-57 *)

IndexEnv(level, names) == [LOG_LEVEL |-> level, LOG_TRANSPORTS |-> names]

\* A program that does not require index.js.
IndexAbsent ==
    /\ indexEnv = IndexEnv(Undef, UnsetEnv)
    /\ indexPc = "absent"
    /\ logLevel = Undef
    /\ transportNames = Undef
    /\ transports = <<>>
    /\ indexLoggers = <<>>

\* process.env.LOG_LEVEL || "info"
LogLevelOf(level) == Or(level, Str("info"))

\* JSON.parse(process.env.LOG_TRANSPORTS || '{}'): an unset or empty variable
\* parses '{}'; a SyntaxError is not caught.
ParseTransportNames(raw) ==
    CASE raw.kind \in {"unset", "empty"} -> [raised |-> FALSE, value |-> EmptyObj]
      [] raw.kind = "malformed" -> [raised |-> TRUE, value |-> Undef]
      [] OTHER -> [raised |-> FALSE, value |-> raw.value]

\* transportNames.includes is a function for an array and for a string only;
\* calling it on anything else raises a TypeError.
HasIncludes(v) == v.t \in {"arr", "text"}

\* transportNames.includes(name): an element of the array (SameValueZero), or
\* a part of the string.
Includes(v, name) ==
    IF v.t = "arr" THEN \E i \in DOMAIN v.items : v.items[i] = Str(name)
    ELSE \E i \in DOMAIN v.units : v.units[i] = name

\* The two if statements, in their order.
IndexTransportsOf(names, level) ==
    (IF Includes(names, "dailyRotateFile")
     THEN <<Sink(1, "DailyRotateFile", Undef)>> ELSE <<>>)
    \o (IF Includes(names, "staticFile")
        THEN <<Sink(IF Includes(names, "dailyRotateFile") THEN 2 ELSE 1, "File", level)>>
        ELSE <<>>)

IndexLoaded(e) ==
    LET parsed == ParseTransportNames(e.LOG_TRANSPORTS)
        level == LogLevelOf(e.LOG_LEVEL)
    IN  IF parsed.raised
        THEN [raised |-> TRUE, level |-> level, names |-> Undef, sinks |-> <<>>]
        ELSE IF ~HasIncludes(parsed.value)
        THEN [raised |-> TRUE, level |-> level, names |-> parsed.value, sinks |-> <<>>]
        ELSE [raised |-> FALSE, level |-> level, names |-> parsed.value,
              sinks |-> IndexTransportsOf(parsed.value, level)]

IndexModuleLoad ==
    /\ indexPc = "load"
    /\ LET m == IndexLoaded(indexEnv)
       IN  /\ indexPc' = IF m.raised THEN "raised" ELSE "ready"
           /\ logLevel' = m.level
           /\ transportNames' = m.names
           /\ transports' = m.sinks
    /\ UNCHANGED <<indexEnv, indexLoggers>>
    /\ UNCHANGED loggerVars

(* index.js createLogger(fileName), lines 60-86 *)

\* The object winston.createLogger returns; n loggers were made before it.
IndexNewLogger(fileName, n) ==
    [fileName |-> fileName,
     level |-> logLevel,
     transports |-> <<Sink(Len(transports) + 2 * n + 1, "Console", logLevel)>> \o transports,
     exceptionHandlers |-> <<Sink(Len(transports) + 2 * n + 2, "File", Undef)>>]

IndexCreateLogger(fileName) ==
    /\ indexPc = "ready"
    /\ indexLoggers' = Append(indexLoggers, IndexNewLogger(fileName, Len(indexLoggers)))
    /\ UNCHANGED <<indexEnv, indexPc, logLevel, transportNames, transports>>
    /\ UNCHANGED loggerVars

-----------------------------------------------------------------------------
(* Specifications *)

InitWith(envs) ==
    /\ env \in envs
    /\ pc = "load"
    /\ loggerConfig = Undef
    /\ defaultLevel = Undef
    /\ globalFormat = ""
    /\ levelOverrides = Undef
    /\ configuredTransports = <<>>
    /\ stderr = <<>>
    /\ nSinks = 0
    /\ loggers = <<>>
    /\ running = NoTask
    /\ resStore = <<>>
    /\ saved = <<>>
    /\ scope = <<>>
    /\ pending = {}
    /\ lastLog = NoLog
    /\ IndexAbsent

\* The service: one label, request contexts, continuations.
Init == InitWith(ServiceEnvs)

CreateServiceLogger ==
    /\ Len(loggers) < MaxHandles
    /\ \E arg \in ServiceLabels : CreateLogger(arg)
Run == \E contextValue \in Contexts : RunEnter(contextValue)
Exit == \E how \in {"return", "throw"} : RunExit(how)
Continue == \E c \in pending : ContRun(c)
Log == LogCall(ServiceSeverities, PlainMessages, NoExtras)

Next ==
    \/ ModuleLoad
    \/ CreateServiceLogger
    \/ TaskStart
    \/ Run
    \/ Exit
    \/ Catch
    \/ Spawn
    \/ TaskEnd
    \/ Continue
    \/ Log

Spec == Init /\ [][Next]_vars

\* Configuration: every shape of LOGGER_CONFIG, every label, every severity.
InitConfig == InitWith(AllEnvs)

CreateAnyLogger ==
    /\ Len(loggers) < MaxLoggers
    /\ \E arg \in Labels : CreateLogger(arg)
LogAnyLevel == LogCall(Severities, PlainMessages, NoExtras)

NextConfig ==
    \/ ModuleLoad
    \/ CreateAnyLogger
    \/ LogAnyLevel

SpecConfig == InitConfig /\ [][NextConfig]_vars

\* Formatting: the default configuration, every message up to MaxMsgLen units.
InitFormat == InitWith({UnsetEnv})

\* One call per run: the formatter keeps no state between calls.
LogAnyMessage ==
    /\ lastLog = NoLog
    /\ LogCall({"info"}, MaskMessages, MaskExtras)

NextFormat ==
    \/ ModuleLoad
    \/ CreateServiceLogger
    \/ LogAnyMessage

SpecFormat == InitFormat /\ [][NextFormat]_vars

\* index.js: every shape of LOG_TRANSPORTS, LOG_LEVEL unset, empty or set.
IndexLevels == {Undef, Str(""), Str("debug"), Str("warn")}

TransportNames == {"dailyRotateFile", "staticFile", "console"}

\* LOG_TRANSPORTS: unset, empty, not JSON, JSON null, number, object, string, array.
IndexNamesChoices ==
    {UnsetEnv, EmptyEnv, MalformedEnv, JsonEnv(Null), JsonEnv(Num(5)), JsonEnv(EmptyObj),
     JsonEnv(Text(<<"dailyRotateFile">>)), JsonEnv(Text(<<"x", "staticFile", "y">>)),
     JsonEnv(Text(<<>>))}
    \cup { JsonEnv(Arr(q)) :
             q \in BoundedSeqs({ Str(n) : n \in TransportNames } \cup {Num(5)}, MaxNames) }

IndexEnvs == { IndexEnv(l, n) : l \in IndexLevels, n \in IndexNamesChoices }

IndexLabels == {"app.js", "db.js"}

InitIndex ==
    /\ indexEnv \in IndexEnvs
    /\ indexPc = "load"
    /\ logLevel = Undef
    /\ transportNames = Undef
    /\ transports = <<>>
    /\ indexLoggers = <<>>
    /\ env = UnsetEnv
    /\ pc = "absent"
    /\ loggerConfig = Undef
    /\ defaultLevel = Undef
    /\ globalFormat = ""
    /\ levelOverrides = Undef
    /\ configuredTransports = <<>>
    /\ stderr = <<>>
    /\ nSinks = 0
    /\ loggers = <<>>
    /\ running = NoTask
    /\ resStore = <<>>
    /\ saved = <<>>
    /\ scope = <<>>
    /\ pending = {}
    /\ lastLog = NoLog

IndexCreateAnyLogger ==
    /\ Len(indexLoggers) < MaxLoggers
    /\ \E fileName \in IndexLabels : IndexCreateLogger(fileName)

NextIndex ==
    \/ IndexModuleLoad
    \/ IndexCreateAnyLogger

SpecIndex == InitIndex /\ [][NextIndex]_vars

-----------------------------------------------------------------------------
(* Properties *)

\* The levels object the user wrote has an entry of its own for the label.
HasEntry(label) ==
    /\ loggerConfig.t = "obj"
    /\ "levels" \in DOMAIN loggerConfig.props
    /\ loggerConfig.props.levels.t = "obj"
    /\ label \in DOMAIN loggerConfig.props.levels.props

\* A record of the given level is at least as severe as the threshold asks.
Passes(threshold, level) == IsLevel(threshold) /\ LevelRank(threshold.str) >= LevelRank(level)

\* C1: once createLogger has been called, further calls construct no sink and
\* open no file: the process holds the configured sinks, one console sink and
\* one exceptions.log sink, and nothing is registered a second time.
SinksBuiltOnce ==
    Len(loggers) >= 1 =>
        /\ Cardinality(AllSinks) = Len(configuredTransports) + 2
        /\ Cardinality(FileHandles)
             = Cardinality({ i \in DOMAIN configuredTransports :
                               OpensFile(configuredTransports[i].kind) }) + 1
        /\ \A s \in AllSinks : Registrations(s) <= 1
        /\ ExceptionListeners <= 1

\* LOGGER_CONFIG is absent, not JSON, or JSON without a transports field.
LacksTransports ==
    env.kind = "json" => ~(env.value.t = "obj" /\ "transports" \in DOMAIN env.value.props)

\* C2: for every LOGGER_CONFIG that is absent, malformed, or parsed but lacking
\* fields (null included), module load does not raise and every missing field
\* takes its default; after a malformed string every handle is at "info" with
\* the console as its only sink.
ConfigLoadingTotal ==
    /\ (pc # "load" /\ LacksTransports) =>
          /\ pc = "ready"
          /\ ~HasEntry("default") => defaultLevel = Str("info")
          /\ GetProp(loggerConfig, "format") = Undef => globalFormat = "pretty"
          /\ configuredTransports = <<>>
    /\ env = MalformedEnv =>
          \A i \in DOMAIN loggers :
              /\ loggers[i].level = Str("info")
              /\ Len(loggers[i].transports) = 1
              /\ loggers[i].transports[1].kind = "Console"

\* C3: the effective level of a handle is the configured entry for its label
\* when the levels mapping has one, and defaultLevel for every other label.
EffectiveLevelResolved ==
    \A i \in DOMAIN loggers :
        LET label == loggers[i].fileName
        IN  IF HasEntry(label)
            THEN loggers[i].level = loggerConfig.props.levels.props[label]
            ELSE loggers[i].level = defaultLevel

\* C4: a record reaches the console iff it passes the handle's effective
\* level, and a configured sink iff it passes both the handle's effective level
\* and the sink's own threshold.
DeliveryFilter ==
    (lastLog.h # 0 /\ IsLevel(loggers[lastLog.h].level)) =>
        LET l == loggers[lastLog.h]
        IN  \A j \in DOMAIN l.transports :
                (l.transports[j] \in lastLog.delivered)
                <=> /\ Passes(l.level, lastLog.level)
                    /\ j = 1 \/ Passes(l.transports[j].level, lastLog.level)

\* LOGGER_CONFIG.transports is an array of descriptor objects.
IsDescriptorList ==
    /\ env.kind = "json"
    /\ env.value.t = "obj"
    /\ "transports" \in DOMAIN env.value.props
    /\ env.value.props.transports.t = "arr"
    /\ \A i \in DOMAIN env.value.props.transports.items : env.value.props.transports.items[i].t = "obj"

KnownDescriptor(d) ==
    "type" \in DOMAIN d.props /\ d.props.type.t = "str" /\ d.props.type.str \in KnownTypes

\* C5: for every sequence of descriptors, building never raises, constructs one
\* sink per descriptor of a known type, in order, and warns once per other one.
TransportBuilding ==
    (pc # "load" /\ IsDescriptorList) =>
        LET list == env.value.props.transports.items
            known == SelectSeq(list, KnownDescriptor)
        IN  /\ pc = "ready"
            /\ Len(configuredTransports) = Len(known)
            /\ \A i \in DOMAIN known :
                   configuredTransports[i].kind = SinkKind(known[i].props.type.str)
            /\ Len(stderr) = Len(list) - Len(known)

\* The regex, read as a description: a keyword at i, spaces, a delimiter,
\* spaces, and the whole run of non-space units that ends at e.
Occurs(m, i, e) ==
    /\ IsKeyword(m[i])
    /\ \E d \in (i + 1)..(e - 1) :
          /\ \A k \in (i + 1)..(d - 1) : IsSpace(m[k])
          /\ IsDelim(m[d])
          /\ \E v \in (d + 1)..e :
                /\ \A k \in (d + 1)..(v - 1) : IsSpace(m[k])
                /\ \A k \in v..e : ~IsSpace(m[k])
    /\ e = Len(m) \/ IsSpace(m[e + 1])

OccursAt(m, i) == \E e \in i..Len(m) : Occurs(m, i, e)

\* How an extra argument is expected to show: as it is, quoted or braced.
Shown(arg) == IF arg.t = "text" THEN <<" ", "'">> \o arg.units \o <<"'">>
              ELSE <<" ", "{">> \o arg.printed \o <<"}">>

\* The part of the last pretty line after "[label] - ", and in it the message part.
LineText == SubSeq(lastLog.out.line, 13, Len(lastLog.out.line))
ExtraText == IF lastLog.extra = <<>> THEN <<>> ELSE Shown(lastLog.extra[1])
MessageText == SubSeq(LineText, 1, Len(LineText) - Len(ExtraText))

Stars(keyword) == <<keyword, ":", " ", "*", "*", "*">>

\* C6: in pretty mode every occurrence of keyword, delimiter and value in a
\* string message is replaced by the keyword as written and ": ***"; a message
\* without an occurrence is unchanged; a message that is no string and the
\* extra arguments are not masked; masking a masked message changes nothing.
MaskingRule ==
    (lastLog.h # 0 /\ lastLog.out.kind = "pretty") =>
        LET m == lastLog.message.units
            out == MessageText
        IN  /\ LineText = out \o ExtraText
            /\ lastLog.message.t # "text" => out = <<"{">> \o lastLog.message.printed \o <<"}">>
            /\ lastLog.message.t = "text" =>
                  /\ m = <<"password", ":", " ", "secret123">> => out = Stars("password")
                  /\ m = <<"token", "=", "abcXYZ">> => out = Stars("token")
                  /\ m = <<"my", " ", "password", " ", "field">> => out = m
                  /\ (\A i \in DOMAIN m : ~OccursAt(m, i)) => out = m
                  /\ \A i \in DOMAIN m, e \in DOMAIN m :
                        (Occurs(m, i, e) /\ \A j \in 1..(i - 1) : ~OccursAt(m, j)) =>
                            /\ Len(out) >= i + 5
                            /\ SubSeq(out, 1, i + 5) = SubSeq(m, 1, i - 1) \o Stars(m[i])
                            /\ e = Len(m) => Len(out) = i + 5
                  /\ \A i \in DOMAIN out, e \in DOMAIN out :
                        Occurs(out, i, e) => SubSeq(out, i, e) = Stars(out[i])
                  /\ MaskFrom(out, 1) = out

\* C6 witness: a message with a secret after a spaced delimiter was logged and masked.
MaskingRuleWitness ==
    /\ lastLog.h # 0
    /\ lastLog.message = Text(<<"Token", " ", "=", " ", "x">>)
    /\ MessageText = Stars("Token")

\* The requestId of a context, Undef when there is none.
IdOf(context) == OptGet(context, "requestId")

\* The line shows the id r between the level and the label.
ShowsId(line, level, fileName, r) ==
    SubSeq(line, 1, 13) = <<"<timestamp>", " ", "[", Upper(level), "]", " ",
                            "[", r, "]", " ", "[", fileName, "]">>

\* The line has no correlation-id part: the label follows the level.
ShowsNoId(line, level, fileName) ==
    SubSeq(line, 1, 9) = <<"<timestamp>", " ", "[", Upper(level), "]", " ",
                           "[", fileName, "]">>

\* C7, as claimed: a pretty line logged in a context with requestId r shows
\* "[r]" between level and label, for every r; a line logged in no context has
\* no correlation-id part.
CorrelationIdShown ==
    (lastLog.h # 0 /\ lastLog.out.kind = "pretty") =>
        LET fileName == loggers[lastLog.h].fileName
            r == IdOf(lastLog.own)
        IN  IF r.t = "str"
            THEN ShowsId(lastLog.out.line, lastLog.level, fileName, r.str)
            ELSE ShowsNoId(lastLog.out.line, lastLog.level, fileName)

\* C7, amended: a pretty line logged in a context with a non-empty requestId r
\* shows "[r]" between level and label; a line logged in no context, or in a
\* context whose requestId is empty, has no correlation-id part.
CorrelationIdShownIfNonEmpty ==
    (lastLog.h # 0 /\ lastLog.out.kind = "pretty") =>
        LET fileName == loggers[lastLog.h].fileName
            r == IdOf(lastLog.own)
        IN  IF r.t = "str" /\ r.str # ""
            THEN ShowsId(lastLog.out.line, lastLog.level, fileName, r.str)
            ELSE ShowsNoId(lastLog.out.line, lastLog.level, fileName)

\* C7 witness: a continuation of the flow r1 logged a pretty line that shows [r1].
CorrelationIdWitness ==
    /\ lastLog.h # 0
    /\ lastLog.out.kind = "pretty"
    /\ lastLog.own = Obj("requestId" :> Str("r1"))
    /\ running.res > 1
    /\ saved = <<>>
    /\ ShowsId(lastLog.out.line, lastLog.level, "test-app", "r1")

\* The id a rendered record carries, Undef when it carries none.
CarriedId(out) ==
    IF out.kind = "json"
    THEN IF "requestId" \in DOMAIN out.fields THEN out.fields.requestId ELSE Undef
    ELSE IF Len(out.line) >= 11 /\ out.line[7] = "[" /\ out.line[9] = "]" /\ out.line[11] = "["
         THEN Str(out.line[8]) ELSE Undef

\* A record carries the id of the flow it was logged in, and no other id.
Isolated ==
    /\ CarriedId(lastLog.out) # Undef => CarriedId(lastLog.out) = IdOf(lastLog.own)
    /\ Truthy(IdOf(lastLog.own)) => CarriedId(lastLog.out) = IdOf(lastLog.own)

\* Isolation of the pretty lines alone.
PrettyFlowIsolation == (lastLog.h # 0 /\ lastLog.out.kind = "pretty") => Isolated

\* C8: however the continuations of flows with distinct request ids
\* interleave, every record logged inside a flow carries that flow's own id and
\* never the id of another flow.
PerFlowIsolation == lastLog.h # 0 => Isolated

\* C9, as claimed: when a run() callback has returned or thrown, the code after
\* the run call sees no active context.
ScopeExitClears ==
    [][Len(saved') < Len(saved) => resStore'[running'.res] = Undef]_vars

\* C9, amended: when a run() callback has returned or thrown, the code after
\* the run call sees the context that was active before the call, which is none
\* when run was called outside every context; the callback and every
\* continuation created inside it see contextValue.
ScopeRestored ==
    running.res # 0 => GetStore = OwnContext

\* C9 witness: the first task entered run(r1), created a continuation there and
\* left the callback; outside again it sees no context, the continuation waits with r1.
ScopeRestoredWitness ==
    /\ running.res = 1
    /\ saved = <<>>
    /\ GetStore = Undef
    /\ \E c \in pending : c.ctx = Obj("requestId" :> Str("r1")) /\ resStore[c.res] = c.ctx

\* C10: with format "json" no record is masked or bracketed and a record logged
\* in a request context has a requestId field with the id pretty mode would
\* show; with any other format the pretty formatter is used.
JsonMode ==
    lastLog.h # 0 =>
        IF GetProp(loggerConfig, "format") = Str("json")
        THEN /\ lastLog.out.kind = "json"
             /\ lastLog.out.line = <<>>
             /\ lastLog.out.fields.message = lastLog.message
             /\ Truthy(IdOf(lastLog.own)) =>
                   /\ "requestId" \in DOMAIN lastLog.out.fields
                   /\ lastLog.out.fields.requestId = IdOf(lastLog.own)
        ELSE lastLog.out.kind = "pretty"

\* LOG_TRANSPORTS is a JSON array that has the name as an element.
Lists(name) ==
    /\ indexEnv.LOG_TRANSPORTS.kind = "json"
    /\ indexEnv.LOG_TRANSPORTS.value.t = "arr"
    /\ \E i \in DOMAIN indexEnv.LOG_TRANSPORTS.value.items :
          indexEnv.LOG_TRANSPORTS.value.items[i] = Str(name)

HasKind(kind) == \E i \in DOMAIN transports : transports[i].kind = kind

\* C11: in index.js, for every value of LOG_TRANSPORTS, unset included, module
\* load completes without raising; the shared list holds the daily rotating
\* file transport iff LOG_TRANSPORTS lists "dailyRotateFile" and the static file
\* transport iff it lists "staticFile"; when LOG_TRANSPORTS is unset the list is
\* empty and a created logger has the console at level LOG_LEVEL (default
\* "info") as its only transport.
IndexTransportList ==
    indexPc \notin {"absent", "load"} =>
        /\ indexPc = "ready"
        /\ HasKind("DailyRotateFile") <=> Lists("dailyRotateFile")
        /\ HasKind("File") <=> Lists("staticFile")
        /\ indexEnv.LOG_TRANSPORTS.kind = "unset" =>
              /\ transports = <<>>
              /\ \A i \in DOMAIN indexLoggers :
                    /\ Len(indexLoggers[i].transports) = 1
                    /\ indexLoggers[i].transports[1].kind = "Console"
                    /\ indexLoggers[i].transports[1].level
                         = (IF indexEnv.LOG_LEVEL = Undef THEN Str("info")
                            ELSE indexEnv.LOG_LEVEL)

====
